---- MODULE Spec2Model ----
(***************************************************************************)
(* Model of server.js: the MTA feed -> NoviSign catalog pipeline           *)
(* (fetchFTrainArrivals, formatDataForNoviSign, pushToNoviSign,            *)
(* fetchAndPushToNoviSign) and its scheduler (AutoUpdater, the SIGTERM     *)
(* handler, the /example endpoint).                                        *)
(*                                                                         *)
(* Two specifications share the module:                                    *)
(*   Spec          the running server: startup cycle, recurring timer,     *)
(*                 overlapping cycles, /example pushes, shutdown;          *)
(*   SelectorSpec  the pure pipeline functions applied to feeds and clock  *)
(*                 values drawn from bounded sets.                         *)
(* LiveSpec is Spec with the fairness the event loop provides.             *)
(***************************************************************************)
EXTENDS Integers, Sequences, FiniteSets, TLC

\* ---------------------------------------------------------------------
\* Bounds of the model
\* ---------------------------------------------------------------------
MaxEntities == 2    \* entities per decoded feed
MaxStus == 2        \* stop-time updates per entity
MaxCycles == 3      \* update cycles started by AutoUpdater in one run
WordBits == 12      \* width of the low word of a wrapped 64-bit value (scaled)

Word == 2 ^ WordBits

\* ---------------------------------------------------------------------
\* Configuration constants of server.js
\* ---------------------------------------------------------------------
ROUTE_ID == "F"
STOP_QUEENS == "D15N"
STOP_BROOKLYN == "D15S"
catalogItemsGroup == "mta-f-train"

\* ---------------------------------------------------------------------
\* Values of stu.arrival.time
\*   kind "none": arrival or arrival.time absent
\*   kind "int" : a plain number (low holds it)
\*   kind "long": a wrapped 64-bit value {low, high}, low a signed word
\* ---------------------------------------------------------------------
NoTime == [kind |-> "none", low |-> 0, high |-> 0]
IntTime(v) == [kind |-> "int", low |-> v, high |-> 0]
LongTime(lo, hi) == [kind |-> "long", low |-> lo, high |-> hi]

\* Numeric value of a wrapped 64-bit value when JavaScript coerces the object
\* in an arithmetic expression (its decimal string).
LongToNumber(t) == t.high * Word + (t.low % Word)

\* !stu.arrival?.time : a wrapped object is truthy, a plain number is truthy
\* unless it is 0.
TimeTruthy(t) == t.kind = "long" \/ (t.kind = "int" /\ t.low # 0)

\* stu.arrival.time.low || stu.arrival.time, as the number later arithmetic sees
ArrivalEpoch(t) ==
  IF t.kind = "long"
    THEN IF t.low # 0 THEN t.low ELSE LongToNumber(t)
    ELSE t.low

\* Math.floor in place of Math.round
MathFloor(num, den) == num \div den

\* Math.round(num / den) for den > 0: halves round towards +infinity
MathRound(num, den) == (2 * num + den) \div (2 * den)

\* The label with its boundary one minute late
LabelArrivingUpToOne(minutesAway) ==
  IF minutesAway <= 1 THEN "Arriving" ELSE ToString(minutesAway) \o " min"

\* minutesAway <= 0 ? 'Arriving' : `${minutesAway} min`
MinutesLabel(minutesAway) ==
  IF minutesAway <= 0 THEN "Arriving" ELSE ToString(minutesAway) \o " min"

\* if (minutesAway < 0) return;
IsPast(minutesAway) == minutesAway < 0

\* The body of the stopTimeUpdate.forEach callback; acc holds the two arrays.
ProcessStu(acc, stu, now) ==
  IF ~TimeTruthy(stu.arrival) \/ stu.stopId = ""
    THEN acc
    ELSE LET arrivalEpoch == ArrivalEpoch(stu.arrival)
             minutesAway == MathRound(arrivalEpoch - now, 60)
             item == [minutesAway |-> MinutesLabel(minutesAway),
                      arrivalTime |-> arrivalEpoch]
         IN IF IsPast(minutesAway)
              THEN acc
              ELSE [queensArrivals |->
                      IF stu.stopId = STOP_QUEENS
                        THEN Append(acc.queensArrivals, item)
                        ELSE acc.queensArrivals,
                    brooklynArrivals |->
                      IF stu.stopId = STOP_BROOKLYN
                        THEN Append(acc.brooklynArrivals, item)
                        ELSE acc.brooklynArrivals]

RECURSIVE ForEachStu(_, _, _, _)
ForEachStu(acc, stus, i, now) ==
  IF i > Len(stus) THEN acc
  ELSE ForEachStu(ProcessStu(acc, stus[i], now), stus, i + 1, now)

\* The entity filter without its route comparison
SkippedWithoutTripOnly(entity) == ~entity.hasTrip

\* if (!entity.tripUpdate?.trip || entity.tripUpdate.trip.routeId !== ROUTE_ID) return;
EntitySkipped(entity) == ~entity.hasTrip \/ entity.routeId # ROUTE_ID

\* The body of the feed.entity.forEach callback.
ProcessEntity(acc, entity, now) ==
  IF EntitySkipped(entity) THEN acc
  ELSE ForEachStu(acc, entity.stopTimeUpdate, 1, now)

RECURSIVE ForEachEntity(_, _, _, _)
ForEachEntity(acc, entities, i, now) ==
  IF i > Len(entities) THEN acc
  ELSE ForEachEntity(ProcessEntity(acc, entities[i], now), entities, i + 1, now)

\* Array.prototype.sort((a, b) => a.arrivalTime - b.arrivalTime): a stable
\* sort, here by insertion.
RECURSIVE InsertSorted(_, _)
InsertSorted(sorted, item) ==
  IF sorted = <<>> THEN <<item>>
  ELSE LET last == sorted[Len(sorted)]
       IN IF last.arrivalTime - item.arrivalTime > 0
            THEN Append(InsertSorted(SubSeq(sorted, 1, Len(sorted) - 1), item), last)
            ELSE Append(sorted, item)

\* The arrays left in feed order
NotSorted(arr) == arr

RECURSIVE SortByArrival(_)
SortByArrival(arr) ==
  IF arr = <<>> THEN <<>>
  ELSE InsertSorted(SortByArrival(SubSeq(arr, 1, Len(arr) - 1)), arr[Len(arr)])

\* arr.slice(0, 3)
SliceFirst3(arr) == SubSeq(arr, 1, IF Len(arr) < 3 THEN Len(arr) ELSE 3)

\* The two arrays once the loop and the two in-place sorts have run.
SortedArrivals(feed, now) ==
  LET acc == ForEachEntity([queensArrivals |-> <<>>, brooklynArrivals |-> <<>>],
                           feed, 1, now)
  IN [queensArrivals |-> SortByArrival(acc.queensArrivals),
      brooklynArrivals |-> SortByArrival(acc.brooklynArrivals)]

\* What fetchFTrainArrivals returns for a decoded feed.
SelectArrivals(feed, now) ==
  LET s == SortedArrivals(feed, now)
  IN [queensBound |-> [nextThreeTrains |-> SliceFirst3(s.queensArrivals)],
      brooklynBound |-> [nextThreeTrains |-> SliceFirst3(s.brooklynArrivals)]]

\* A fetch that swallows its failure and hands on an empty result
fetchSwallowsFailure(response, now) ==
  [ok |-> TRUE,
   value |-> IF response.status = "ok"
               THEN SelectArrivals(response.feed, now)
               ELSE [queensBound |-> [nextThreeTrains |-> <<>>],
                     brooklynBound |-> [nextThreeTrains |-> <<>>]]]

\* fetchFTrainArrivals: response is what axios.get and the decoder deliver.
\*   status "ok"        a well-formed payload, decoded to response.feed
\*   status "malformed" FeedMessage.decode throws
\*   status "transport" axios.get rejects (timeout, DNS, non-2xx)
fetchFTrainArrivals(response, now) ==
  IF response.status = "ok"
    THEN [ok |-> TRUE, value |-> SelectArrivals(response.feed, now)]
    ELSE [ok |-> FALSE, error |-> "Failed to fetch MTA data"]

\* ---------------------------------------------------------------------
\* formatDataForNoviSign
\* ---------------------------------------------------------------------
ItemId(prefix, n) == prefix \o "_" \o ToString(n)

\* items[itemId] = value
PutItem(items, itemId, value) == (itemId :> value) @@ items

\* nextThreeTrains.forEach((train, index) => items[`${prefix}_${index + 1}`] = ...)
RECURSIVE ForEachTrain(_, _, _, _)
ForEachTrain(items, prefix, trains, i) ==
  IF i > Len(trains) THEN items
  ELSE ForEachTrain(PutItem(items, ItemId(prefix, i),
                            [minutesAway |-> trains[i].minutesAway]),
                    prefix, trains, i + 1)

\* The padding loop stopping one slot early
RECURSIVE FillTwoSlots(_, _, _)
FillTwoSlots(items, prefix, i) ==
  IF ~(i < 2) THEN items
  ELSE FillTwoSlots(PutItem(items, ItemId(prefix, i + 1), [minutesAway |-> "--"]),
                    prefix, i + 1)

\* for (let i = length; i < 3; i++) items[`${prefix}_${i + 1}`] = '--'
RECURSIVE FillPlaceholders(_, _, _)
FillPlaceholders(items, prefix, i) ==
  IF ~(i < 3) THEN items
  ELSE FillPlaceholders(PutItem(items, ItemId(prefix, i + 1), [minutesAway |-> "--"]),
                        prefix, i + 1)

formatDataForNoviSign(trainData) ==
  LET q == trainData.queensBound.nextThreeTrains
      b == trainData.brooklynBound.nextThreeTrains
      i1 == ForEachTrain(<<>>, "queens", q, 1)
      i2 == FillPlaceholders(i1, "queens", Len(q))
      i3 == ForEachTrain(i2, "brooklyn", b, 1)
  IN FillPlaceholders(i3, "brooklyn", Len(b))

\* ---------------------------------------------------------------------
\* pushToNoviSign
\* ---------------------------------------------------------------------
\* const targetGroup = itemsGroup || catalogItemsGroup; the one axios.post
pushRequest(dataItems, itemsGroup) ==
  [group |-> IF itemsGroup = "" THEN catalogItemsGroup ELSE itemsGroup,
   data |-> dataItems]

\* A result that counts only the slots holding a train
pushCountsFilledSlots(dataItems, reply) ==
  IF reply = "ok"
    THEN [ok |-> TRUE, success |-> TRUE,
          itemsUpdated |->
            Cardinality({k \in DOMAIN dataItems : dataItems[k].minutesAway # "--"}),
          error |-> ""]
    ELSE [ok |-> FALSE, success |-> FALSE, itemsUpdated |-> 0,
          error |-> "Failed to push to NoviSign"]

\* How the awaited axios.post settles the call.
\*   reply "ok"        a 2xx response
\*   reply "rejected"  error.response present (non-2xx status)
\*   reply "transport" no response (timeout, DNS, connection reset)
pushToNoviSign(dataItems, reply) ==
  IF reply = "ok"
    THEN [ok |-> TRUE, success |-> TRUE,
          itemsUpdated |-> Cardinality(DOMAIN dataItems), error |-> ""]
    ELSE IF reply = "rejected"
      THEN [ok |-> FALSE, success |-> FALSE, itemsUpdated |-> 0,
            error |-> "NoviSign API error"]
      ELSE [ok |-> FALSE, success |-> FALSE, itemsUpdated |-> 0,
            error |-> "Failed to push to NoviSign"]

PushReplies == {"ok", "rejected", "transport"}

\* The fixed map the /example endpoint pushes.
exampleData ==
  [queens_1 |-> [minutesAway |-> "5 min"],
   queens_2 |-> [minutesAway |-> "12 min"],
   queens_3 |-> [minutesAway |-> "18 min"],
   brooklyn_1 |-> [minutesAway |-> "3 min"],
   brooklyn_2 |-> [minutesAway |-> "8 min"],
   brooklyn_3 |-> [minutesAway |-> "15 min"]]

\* ---------------------------------------------------------------------
\* Inputs: feeds and clock values
\* ---------------------------------------------------------------------
BaseTime == 1000    \* epoch second the feeds' arrival times are placed around

Stu(stop, time) == [stopId |-> stop, arrival |-> time]

FTrip == [hasTrip |-> TRUE, routeId |-> "F"]
MTrip == [hasTrip |-> TRUE, routeId |-> "M"]
NoTrip == [hasTrip |-> FALSE, routeId |-> ""]

SeqsUpTo(S, k) == UNION {[1..n -> S] : n \in 0..k}

\* Each scenario: the stop-time updates and trips its feeds are built from,
\* and the clock values they are read at.
Scenarios ==
  { \* one direction, out-of-order times, clock around every rounding boundary
    [stus |-> {Stu("D15N", IntTime(BaseTime)), Stu("D15N", IntTime(BaseTime + 90))},
     trips |-> {FTrip},
     nows |-> {BaseTime + 31, BaseTime + 30, BaseTime + 1, BaseTime,
               BaseTime - 29, BaseTime - 30, BaseTime - 125}],
    \* three distinct times in one direction
    [stus |-> {Stu("D15N", IntTime(BaseTime + 40)), Stu("D15N", IntTime(BaseTime)),
               Stu("D15N", IntTime(BaseTime + 90))},
     trips |-> {FTrip},
     nows |-> {BaseTime - 30}],
    \* the two directions
    [stus |-> {Stu("D15N", IntTime(BaseTime)), Stu("D15S", IntTime(BaseTime + 30))},
     trips |-> {FTrip},
     nows |-> {BaseTime - 30, BaseTime + 1, BaseTime + 31}],
    \* other routes, missing trips
    [stus |-> {Stu("D15N", IntTime(BaseTime))},
     trips |-> {FTrip, MTrip, NoTrip},
     nows |-> {BaseTime - 60, BaseTime + 20}],
    \* other stops
    [stus |-> {Stu("D15S", IntTime(BaseTime)), Stu("D14N", IntTime(BaseTime))},
     trips |-> {FTrip},
     nows |-> {BaseTime - 60}],
    \* absent stop identifier
    [stus |-> {Stu("", IntTime(BaseTime)), Stu("D15N", IntTime(BaseTime))},
     trips |-> {FTrip},
     nows |-> {BaseTime - 60}],
    \* absent arrival time, wrapped 64-bit time
    [stus |-> {Stu("D15N", NoTime), Stu("D15S", LongTime(BaseTime, 0))},
     trips |-> {FTrip},
     nows |-> {BaseTime - 30, BaseTime + 31}],
    \* zero times, plain and wrapped
    [stus |-> {Stu("D15N", IntTime(0)), Stu("D15N", LongTime(0, 0))},
     trips |-> {FTrip},
     nows |-> {0}],
    \* wrapped 64-bit times that do not fit the signed low word
    [stus |-> {Stu("D15N", LongTime(5, 1)), Stu("D15S", LongTime(-5, 0))},
     trips |-> {FTrip},
     nows |-> {BaseTime}],
    \* the arrivals at now+125s and now+3700s
    [stus |-> {Stu("D15N", IntTime(BaseTime)), Stu("D15N", IntTime(BaseTime + 3575))},
     trips |-> {FTrip},
     nows |-> {BaseTime - 125}] }

EntitiesOf(sc) ==
  {[hasTrip |-> t.hasTrip, routeId |-> t.routeId, stopTimeUpdate |-> u] :
     t \in sc.trips, u \in SeqsUpTo(sc.stus, MaxStus)}

Inputs == UNION {SeqsUpTo(EntitiesOf(sc), MaxEntities) \X sc.nows : sc \in Scenarios}

\* What the feed endpoint and the clock deliver to the cycles of the server.
CycleFeeds ==
  { <<>>,
    <<[hasTrip |-> TRUE, routeId |-> "F",
       stopTimeUpdate |-> <<Stu("D15N", IntTime(BaseTime + 90)),
                            Stu("D15S", IntTime(BaseTime))>>]>> }
CycleNows == {BaseTime - 30}
FeedResponses ==
  {[status |-> "transport", feed |-> <<>>], [status |-> "malformed", feed |-> <<>>]}
  \cup {[status |-> "ok", feed |-> f] : f \in CycleFeeds}

\* ---------------------------------------------------------------------
\* State
\* ---------------------------------------------------------------------
VARIABLES
  server,           \* "loading" | "running" | "exited" (process.exit)
  cycles,           \* the invocations of fetchAndPushToNoviSign by AutoUpdater
  updateInterval,   \* "undefined" | "armed" | "cleared"
  example,          \* the /example handler's invocation of pushToNoviSign
  feed, now,        \* SelectorSpec: the decoded feed and Date.now()/1000
  queensArrivals, brooklynArrivals,   \* SelectorSpec: the sorted arrays
  trainData,        \* SelectorSpec: what fetchFTrainArrivals returned
  novisignData,     \* SelectorSpec: what formatDataForNoviSign returned
  selPc             \* SelectorSpec: "off" | "input" | "selected" | "formatted"

schedVars == <<server, cycles, updateInterval, example>>
selVars == <<feed, now, queensArrivals, brooklynArrivals, trainData, novisignData, selPc>>
vars == <<server, cycles, updateInterval, example, feed, now, queensArrivals,
          brooklynArrivals, trainData, novisignData, selPc>>

NoItems == <<>>
NoTrainData == [queensBound |-> [nextThreeTrains |-> <<>>],
                brooklynBound |-> [nextThreeTrains |-> <<>>]]

\* A cycle that has not been started.
IdleCycle ==
  [st |-> "idle", gets |-> 0, posts |-> 0, fetchReply |-> "none",
   pushReply |-> "none", items |-> NoItems, outcome |-> "pending",
   success |-> FALSE, itemsUpdated |-> 0, logged |-> ""]

CycleIds == 1..MaxCycles

SchedInit ==
  /\ server = "loading"
  /\ cycles = [n \in CycleIds |-> IdleCycle]
  /\ updateInterval = "undefined"
  /\ example = [st |-> "idle", group |-> "", posts |-> 0, status |-> 0,
                itemsUpdated |-> 0]

SelOff ==
  /\ feed = <<>>
  /\ now = 0
  /\ queensArrivals = <<>>
  /\ brooklynArrivals = <<>>
  /\ trainData = NoTrainData
  /\ novisignData = NoItems
  /\ selPc = "off"

Init == SchedInit /\ SelOff

\* ---------------------------------------------------------------------
\* The server: cycles, timer, /example, shutdown
\* ---------------------------------------------------------------------
Running == server = "running"

\* fetchAndPushToNoviSign, up to its first await: fetchFTrainArrivals has
\* issued axios.get.
StartedCycle == [IdleCycle EXCEPT !.st = "fetching", !.gets = 1]

\* The .catch handlers of AutoUpdater: what is logged for a rejected cycle.
CatchLog(n) == IF n = 1 THEN "Initial update failed" ELSE "Auto-update failed"

\* A cycle's promise settles; AutoUpdater's .catch swallows a rejection.
SettledCycle(c, n, r) ==
  [c EXCEPT !.st = "done", !.items = NoItems,
            !.outcome = IF r.ok THEN "resolved" ELSE "rejected",
            !.success = IF r.ok THEN r.success ELSE FALSE,
            !.itemsUpdated = IF r.ok THEN r.itemsUpdated ELSE 0,
            !.logged = IF r.ok THEN "" ELSE CatchLog(n)]

\* AutoUpdater without its .catch: a rejected startup cycle rejects
\* AutoUpdater before setInterval is reached.
ResumeWithoutCatch(n, rejected) ==
  updateInterval' = IF n = 1 /\ ~rejected THEN "armed" ELSE updateInterval

\* AutoUpdater after `await fetchAndPushToNoviSign().catch(...)`: the startup
\* cycle (n = 1) has settled, so setInterval runs; a timer-started cycle's
\* callback just ends.
AutoUpdaterResume(n, rejected) ==
  updateInterval' = IF n = 1 THEN "armed" ELSE updateInterval

\* The missing-await slip: setInterval runs along with the startup cycle.
AutoUpdaterNoAwait ==
  /\ cycles' = [cycles EXCEPT ![1] = StartedCycle]
  /\ updateInterval' = "armed"

\* AutoUpdater, up to its await: the startup cycle is started.
AutoUpdater ==
  /\ cycles' = [cycles EXCEPT ![1] = StartedCycle]
  /\ updateInterval' = updateInterval

\* startServer: app.listen, AutoUpdater(), process.on('SIGTERM', ...)
startServer ==
  /\ server = "loading"
  /\ AutoUpdater
  /\ server' = "running"
  /\ UNCHANGED <<example, selVars>>

\* The setInterval callback: starts the next cycle, whatever is in flight.
TimerFire ==
  /\ Running
  /\ updateInterval = "armed"
  /\ \E n \in CycleIds :
       /\ cycles[n].st = "idle"
       /\ \A m \in CycleIds : m < n => cycles[m].st # "idle"
       /\ cycles' = [cycles EXCEPT ![n] = StartedCycle]
  /\ UNCHANGED <<server, updateInterval, example, selVars>>

\* axios.get of cycle n settles: decode, select, format, then pushToNoviSign
\* issues its axios.post; or the cycle fails.
FetchSettles(n) ==
  /\ Running
  /\ cycles[n].st = "fetching"
  /\ \E response \in FeedResponses, t \in CycleNows :
       LET r == fetchFTrainArrivals(response, t)
           c == [cycles[n] EXCEPT !.fetchReply = response.status]
       IN IF r.ok
            THEN LET novisign == formatDataForNoviSign(r.value)
                     req == pushRequest(novisign, "")
                 IN /\ cycles' = [cycles EXCEPT ![n] =
                                    [c EXCEPT !.st = "publishing", !.items = req.data,
                                              !.posts = c.posts + 1]]
                    /\ UNCHANGED updateInterval
            ELSE /\ cycles' = [cycles EXCEPT ![n] = SettledCycle(c, n, r)]
                 /\ AutoUpdaterResume(n, TRUE)
  /\ UNCHANGED <<server, example, selVars>>

\* axios.post of cycle n settles: the cycle resolves or rejects.
PublishSettles(n) ==
  /\ Running
  /\ cycles[n].st = "publishing"
  /\ \E reply \in PushReplies :
       LET r == pushToNoviSign(cycles[n].items, reply)
           c == [cycles[n] EXCEPT !.pushReply = reply]
       IN /\ cycles' = [cycles EXCEPT ![n] = SettledCycle(c, n, r)]
          /\ AutoUpdaterResume(n, ~r.ok)
  /\ UNCHANGED <<server, example, selVars>>

\* GET /example: pushToNoviSign(exampleData, 'mta-f-train') issues its request.
ExampleRequest ==
  /\ Running
  /\ example.st = "idle"
  /\ LET req == pushRequest(exampleData, "mta-f-train")
     IN example' = [st |-> "pushing", group |-> req.group, posts |-> 1,
                    status |-> 0, itemsUpdated |-> 0]
  /\ UNCHANGED <<server, cycles, updateInterval, selVars>>

\* The /example push settles: res.json(...) or res.status(500).json(...)
ExampleSettles ==
  /\ Running
  /\ example.st = "pushing"
  /\ \E reply \in PushReplies :
       LET r == pushToNoviSign(exampleData, reply)
       IN example' = [example EXCEPT !.st = "idle",
                                     !.status = IF r.ok THEN 200 ELSE 500,
                                     !.itemsUpdated = r.itemsUpdated]
  /\ UNCHANGED <<server, cycles, updateInterval, selVars>>

\* The SIGTERM handler: clearInterval(updateInterval); process.exit(0)
Shutdown ==
  /\ Running
  /\ updateInterval' = IF updateInterval = "armed" THEN "cleared" ELSE updateInterval
  /\ server' = "exited"
  /\ UNCHANGED <<cycles, example, selVars>>

Next ==
  \/ startServer
  \/ TimerFire
  \/ \E n \in CycleIds : FetchSettles(n)
  \/ \E n \in CycleIds : PublishSettles(n)
  \/ ExampleRequest
  \/ ExampleSettles
  \/ Shutdown

Spec == Init /\ [][Next]_vars

\* The event loop runs every callback that is due: the timer fires while it
\* is armed and every outbound request settles (each has a 10 s timeout).
Fairness ==
  /\ WF_vars(startServer)
  /\ WF_vars(TimerFire)
  /\ \A n \in CycleIds : WF_vars(FetchSettles(n)) /\ WF_vars(PublishSettles(n))

LiveSpec == Init /\ [][Next]_vars /\ Fairness

\* ---------------------------------------------------------------------
\* The pipeline functions on drawn inputs
\* ---------------------------------------------------------------------
SelectorInit ==
  /\ SchedInit
  /\ \E in \in Inputs : feed = in[1] /\ now = in[2]
  /\ queensArrivals = <<>>
  /\ brooklynArrivals = <<>>
  /\ trainData = NoTrainData
  /\ novisignData = NoItems
  /\ selPc = "input"

\* fetchFTrainArrivals on the decoded feed
Select ==
  /\ selPc = "input"
  /\ LET s == SortedArrivals(feed, now)
         r == fetchFTrainArrivals([status |-> "ok", feed |-> feed], now)
     IN /\ queensArrivals' = s.queensArrivals
        /\ brooklynArrivals' = s.brooklynArrivals
        /\ trainData' = r.value
  /\ selPc' = "selected"
  /\ UNCHANGED <<schedVars, feed, now, novisignData>>

\* formatDataForNoviSign on the selector's result
Format ==
  /\ selPc = "selected"
  /\ novisignData' = formatDataForNoviSign(trainData)
  /\ selPc' = "formatted"
  /\ UNCHANGED <<schedVars, feed, now, queensArrivals, brooklynArrivals, trainData>>

SelectorNext == Select \/ Format

SelectorSpec == SelectorInit /\ [][SelectorNext]_vars

\* ---------------------------------------------------------------------
\* Vocabulary of the claims about the selector and the formatter
\* ---------------------------------------------------------------------
\* fetchFTrainArrivals has returned (formatting leaves its result untouched)
Selected == selPc = "selected"

\* The stop-time updates of the feed, by position <<entity, update>>
Pos == UNION {{<<e, u>> : u \in 1..Len(feed[e].stopTimeUpdate)} : e \in 1..Len(feed)}
StuAt(p) == feed[p[1]].stopTimeUpdate[p[2]]
EpochAt(p) == ArrivalEpoch(StuAt(p).arrival)
SecondsAt(p) == EpochAt(p) - now
MinutesAt(p) == MathRound(SecondsAt(p), 60)

\* The update belongs to a trip of route F, carries an arrival time and
\* names the stop.
Candidate(p, stop) ==
  /\ feed[p[1]].hasTrip
  /\ feed[p[1]].routeId = "F"
  /\ StuAt(p).arrival.kind # "none"
  /\ ~(StuAt(p).arrival.kind = "int" /\ StuAt(p).arrival.low = 0)
  /\ StuAt(p).stopId = stop

\* The retained arrivals of a direction
Kept(stop) == {p \in Pos : Candidate(p, stop) /\ MinutesAt(p) >= 0}

Range(seq) == {seq[i] : i \in DOMAIN seq}
Min2(a, b) == IF a < b THEN a ELSE b

QueensOut == trainData.queensBound.nextThreeTrains
BrooklynOut == trainData.brooklynBound.nextThreeTrains

\* ---------------------------------------------------------------------
\* C4 - Windowing
\* ---------------------------------------------------------------------
Window(out, stop) ==
  LET K == Kept(stop)
  IN /\ Len(out) <= 3
     /\ \A i \in 1..(Len(out) - 1) : out[i].arrivalTime <= out[i + 1].arrivalTime
     /\ \A i \in 1..Len(out) : MathRound(out[i].arrivalTime - now, 60) >= 0
     /\ Len(out) = Min2(3, Cardinality(K))
     /\ \A i \in 1..Len(out) :
          /\ Cardinality({p \in K : EpochAt(p) < out[i].arrivalTime}) < i
          /\ i <= Cardinality({p \in K : EpochAt(p) <= out[i].arrivalTime})

\* C4: each direction's nextThreeTrains has at most 3 events, is sorted
\* ascending by arrival epoch, holds only arrivals whose computed minutes-away
\* is >= 0, and is exactly the earliest min(3, k) of the k retained arrivals
\* (its i-th event carries the i-th smallest retained epoch).
C4_Windowing ==
  Selected => Window(QueensOut, "D15N") /\ Window(BrooklynOut, "D15S")

\* More than three retained Queens arrivals, met out of order in the feed,
\* with three distinct epochs selected.
C4_Witness ==
  /\ Selected
  /\ Cardinality(Kept("D15N")) > 3
  /\ Len(QueensOut) = 3
  /\ QueensOut[1].arrivalTime < QueensOut[2].arrivalTime
  /\ QueensOut[2].arrivalTime < QueensOut[3].arrivalTime
  /\ \E p \in Kept("D15N") : p[1] = 1 /\ p[2] = 1 /\ EpochAt(p) > QueensOut[1].arrivalTime

\* ---------------------------------------------------------------------
\* C5 - past arrivals
\* ---------------------------------------------------------------------
\* C5 as stated: an update whose arrival epoch is strictly earlier than now
\* (judged before rounding) produces no event, so neither array holds an
\* event whose arrival epoch is before now.
C5_PastExcludedBeforeRounding ==
  Selected =>
    \A item \in Range(queensArrivals) \cup Range(brooklynArrivals) :
      item.arrivalTime - now >= 0

PastBucket(bucket, stop) ==
  /\ \A i \in DOMAIN bucket : bucket[i].arrivalTime - now >= -30
  /\ \A i \in DOMAIN bucket :
       bucket[i].arrivalTime - now < 0 => bucket[i].minutesAway = "Arriving"
  /\ Len(bucket) = Cardinality({p \in Pos : Candidate(p, stop) /\ SecondsAt(p) >= -30})

\* C5 amended: the exclusion is judged after rounding. An update produces no
\* event exactly when its arrival is more than 30 s before now; an arrival
\* 1 to 30 s in the past is retained and labelled "Arriving".
C5_PastExcludedAfterRounding ==
  Selected => PastBucket(queensArrivals, "D15N") /\ PastBucket(brooklynArrivals, "D15S")

\* One update 31 s past is dropped while another 1 s past is kept.
C5_Witness ==
  /\ Selected
  /\ \E p \in Pos : Candidate(p, "D15N") /\ SecondsAt(p) = -31
  /\ \E i \in DOMAIN brooklynArrivals : brooklynArrivals[i].arrivalTime - now = -1
  /\ queensArrivals = <<>>

\* ---------------------------------------------------------------------
\* C6 - labeling boundary
\* ---------------------------------------------------------------------
Labelled(bucket, stop) ==
  \A p \in {q \in Pos : Candidate(q, stop)} :
    LET epoch == EpochAt(p)
        m == MathRound(epoch - now, 60)
        evs == {i \in DOMAIN bucket : bucket[i].arrivalTime = epoch}
    IN /\ m <= -1 => evs = {}
       /\ m >= 0 => evs # {}
       /\ m = 0 => \A i \in evs : bucket[i].minutesAway = "Arriving"
       /\ m = 1 => \A i \in evs : bucket[i].minutesAway = "1 min"
       /\ m >= 1 => \A i \in evs : bucket[i].minutesAway = ToString(m) \o " min"
       /\ EpochAt(p) - now = 125 => \A i \in evs : bucket[i].minutesAway = "2 min"
       /\ EpochAt(p) - now = 3700 => \A i \in evs : bucket[i].minutesAway = "62 min"

\* C6: with m = round((arrivalEpoch - now)/60), an update is excluded when
\* m <= -1, labelled "Arriving" when m = 0 and "<m> min" when m >= 1; the
\* arrivals at now+125 s and now+3700 s are labelled "2 min" and "62 min".
C6_LabelingBoundary ==
  Selected => Labelled(queensArrivals, "D15N") /\ Labelled(brooklynArrivals, "D15S")

\* m = -1 is dropped next to an m = 1 labelled "1 min".
C6_Witness ==
  /\ Selected
  /\ \E p \in Pos : Candidate(p, "D15N") /\ MinutesAt(p) = -1
  /\ \E p \in Pos : Candidate(p, "D15N") /\ MinutesAt(p) = 1
  /\ Len(queensArrivals) >= 1
  /\ \A i \in DOMAIN queensArrivals : queensArrivals[i].minutesAway = "1 min"

\* ---------------------------------------------------------------------
\* C7 - fixed-shape padding
\* ---------------------------------------------------------------------
QueensKeys == <<"queens_1", "queens_2", "queens_3">>
BrooklynKeys == <<"brooklyn_1", "brooklyn_2", "brooklyn_3">>

Padded(keys, trains) ==
  \A i \in 1..3 :
    novisignData[keys[i]].minutesAway =
      IF i <= Len(trains) THEN trains[i].minutesAway ELSE "--"

\* C7: the formatted map has exactly the six keys queens_1..3, brooklyn_1..3;
\* slot i of a direction carries its i-th event's label, or "--" when there
\* is no i-th event.
C7_FixedShapePadding ==
  selPc = "formatted" =>
    /\ DOMAIN novisignData = Range(QueensKeys) \cup Range(BrooklynKeys)
    /\ Cardinality(DOMAIN novisignData) = 6
    /\ Padded(QueensKeys, QueensOut)
    /\ Padded(BrooklynKeys, BrooklynOut)

\* A full direction next to one with a single event; the other padded slots.
C7_Witness ==
  /\ selPc = "formatted"
  /\ Len(QueensOut) = 3
  /\ Len(BrooklynOut) = 1
  /\ novisignData["brooklyn_1"].minutesAway # "--"
  /\ novisignData["brooklyn_2"].minutesAway = "--"
  /\ novisignData["brooklyn_3"].minutesAway = "--"

\* ---------------------------------------------------------------------
\* C8 - route/stop filtering
\* ---------------------------------------------------------------------
SameEvents(bucket, stop) ==
  LET K == Kept(stop)
  IN /\ Len(bucket) = Cardinality(K)
     /\ \A i \in DOMAIN bucket :
          Cardinality({j \in DOMAIN bucket :
                         bucket[j].arrivalTime = bucket[i].arrivalTime})
            = Cardinality({p \in K : EpochAt(p) = bucket[i].arrivalTime})

\* C8: the events of a direction's array are exactly those of the updates of
\* route-F trips that name that direction's stop: entities without a trip or
\* of another route, and updates naming neither stop, contribute nothing, and
\* no update is counted in both arrays.
C8_RouteStopFiltering ==
  Selected =>
    /\ SameEvents(queensArrivals, "D15N")
    /\ SameEvents(brooklynArrivals, "D15S")
    /\ Len(queensArrivals) + Len(brooklynArrivals)
         = Cardinality(Kept("D15N") \cup Kept("D15S"))

\* An entity of another route and one without a trip, each with an update
\* for the Queens stop, next to a route-F entity that contributes its event.
C8_Witness ==
  /\ Selected
  /\ Len(feed) = 2
  /\ \E e \in 1..Len(feed) :
       /\ feed[e].routeId # "F"
       /\ \E u \in 1..Len(feed[e].stopTimeUpdate) :
            feed[e].stopTimeUpdate[u].stopId = "D15N"
  /\ Len(queensArrivals) = 1
  /\ brooklynArrivals = <<>>

\* ---------------------------------------------------------------------
\* Vocabulary of the claims about the cycles
\* ---------------------------------------------------------------------
InFlight(n) == cycles[n].st \in {"fetching", "publishing"}
Done(n) == cycles[n].st = "done"
Failed(n) == Done(n) /\ cycles[n].outcome = "rejected"
\* No failure was delivered to the cycle.
Clean(n) == cycles[n].fetchReply = "ok" /\ cycles[n].pushReply = "ok"
\* The cycle fetched, formatted and published.
Completed(n) ==
  /\ Done(n)
  /\ cycles[n].outcome = "resolved"
  /\ cycles[n].gets = 1
  /\ cycles[n].posts = 1
  /\ cycles[n].itemsUpdated = 6

\* ---------------------------------------------------------------------
\* C1 - cycle isolation
\* ---------------------------------------------------------------------
\* C1: a failed cycle is caught at the cycle boundary (logged by the .catch)
\* and leaves the timer armed while the server runs; and after cycle N has
\* failed, cycle N+1 is started and settles, completing (fetch, format,
\* publish) when no failure is delivered to it - unless the process exits.
C1_CycleIsolation ==
  /\ [](\A n \in CycleIds :
          Failed(n) => /\ cycles[n].logged # ""
                       /\ Running => updateInterval = "armed")
  /\ \A n \in 1..(MaxCycles - 1) :
       Failed(n) ~> (\/ server = "exited"
                     \/ Done(n + 1) /\ (Clean(n + 1) => Completed(n + 1)))

\* The startup cycle fails at the decoder, the next at the publisher, and
\* the one after completes.
C1_Witness ==
  /\ Failed(1) /\ cycles[1].fetchReply = "malformed"
  /\ Failed(2) /\ cycles[2].pushReply = "rejected"
  /\ Clean(3) /\ Completed(3)
  /\ updateInterval = "armed"

\* ---------------------------------------------------------------------
\* C2 - cycles do not overlap
\* ---------------------------------------------------------------------
\* C2 as stated: at most one cycle started by AutoUpdater is in flight.
C2_CyclesDoNotOverlap ==
  Cardinality({n \in CycleIds : InFlight(n)}) <= 1

\* ---------------------------------------------------------------------
\* C3 - startup ordering
\* ---------------------------------------------------------------------
\* C3: AutoUpdater starts one cycle at once; the timer is armed only after
\* that startup cycle has settled, and is armed then whether it resolved or
\* rejected; no timer-started cycle begins before the startup cycle ends.
C3_StartupOrdering ==
  /\ server # "loading" => cycles[1].st # "idle"
  /\ server = "loading" => \A n \in CycleIds : cycles[n].st = "idle"
  /\ updateInterval # "undefined" => Done(1)
  /\ Done(1) /\ Running => updateInterval = "armed"
  /\ \A n \in CycleIds :
       /\ n > 1 /\ cycles[n].st # "idle" => Done(1)
       /\ cycles[n].logged = "Initial update failed" => n = 1

\* The startup cycle has failed, the timer is armed and has started a cycle.
C3_Witness ==
  /\ Failed(1)
  /\ updateInterval = "armed"
  /\ InFlight(2)

\* ---------------------------------------------------------------------
\* C9 - a failed cycle does not update the catalog
\* ---------------------------------------------------------------------
\* C9: a cycle issues its feed request once and its publish request at most
\* once, the publish only after its fetch and decode succeeded and the six
\* slots were formatted; a cycle whose fetch or decode failed issues no
\* publish request and ends there.
C9_FailedCycleDoesNotPublish ==
  \A n \in CycleIds :
    /\ cycles[n].gets <= 1
    /\ cycles[n].posts <= 1
    /\ cycles[n].posts = 1 => cycles[n].fetchReply = "ok"
    /\ cycles[n].fetchReply \in {"malformed", "transport"} =>
         cycles[n].posts = 0 /\ Failed(n) /\ cycles[n].pushReply = "none"
    /\ cycles[n].st = "fetching" => cycles[n].gets = 1 /\ cycles[n].posts = 0
    /\ cycles[n].st = "publishing" =>
         /\ cycles[n].gets = 1 /\ cycles[n].posts = 1
         /\ Cardinality(DOMAIN cycles[n].items) = 6
    /\ cycles[n].pushReply # "none" => cycles[n].posts = 1

\* One cycle failed at the fetch without publishing, another published.
C9_Witness ==
  /\ Failed(1) /\ cycles[1].fetchReply = "transport" /\ cycles[1].posts = 0
  /\ Failed(2) /\ cycles[2].fetchReply = "malformed" /\ cycles[2].posts = 0
  /\ cycles[3].st = "publishing" /\ cycles[3].posts = 1

\* ---------------------------------------------------------------------
\* C10 - the publisher tries once
\* ---------------------------------------------------------------------
PushSettlesOnce(n) ==
  /\ cycles[n].st = "publishing" /\ cycles'[n] # cycles[n] =>
       /\ cycles'[n].st = "done"
       /\ cycles'[n].posts = 1
       /\ cycles'[n].pushReply = "ok" =>
            /\ cycles'[n].outcome = "resolved"
            /\ cycles'[n].success
            /\ cycles'[n].itemsUpdated = Cardinality(DOMAIN cycles[n].items)
       /\ cycles'[n].pushReply # "ok" =>
            /\ cycles'[n].pushReply \in {"rejected", "transport"}
            /\ cycles'[n].outcome = "rejected"
            /\ ~cycles'[n].success
  /\ Done(n) => cycles'[n] = cycles[n]

ExamplePushSettlesOnce ==
  /\ example.st = "idle" /\ example' # example =>
       example'.st = "pushing" /\ example'.posts = 1
  /\ example.st = "pushing" /\ example' # example =>
       /\ example'.st = "idle"
       /\ example'.posts = 1
       /\ example'.status \in {200, 500}
       /\ example'.status = 200 =>
            example'.itemsUpdated = Cardinality(DOMAIN exampleData)

\* C10: every invocation of pushToNoviSign (by a cycle or by /example) issues
\* one request and settles once: on a success response with success = true
\* and itemsUpdated = the number of keys sent, otherwise with an error and no
\* further request.
C10_PublisherTriesOnce ==
  [][(\A n \in CycleIds : PushSettlesOnce(n)) /\ ExamplePushSettlesOnce]_vars

\* One push resolved with its six items, one was rejected, one got no
\* response, and the /example push succeeded.
C10_Witness ==
  /\ Completed(1) /\ cycles[1].success
  /\ Failed(2) /\ cycles[2].pushReply = "rejected" /\ cycles[2].posts = 1
  /\ Failed(3) /\ cycles[3].pushReply = "transport" /\ cycles[3].posts = 1
  /\ example.status = 200 /\ example.itemsUpdated = 6

\* ---------------------------------------------------------------------
\* C11 - cancellation
\* ---------------------------------------------------------------------
Cancelled == server = "exited"

\* C11 as stated: once the shutdown path has cancelled the timer no new cycle
\* is started, and a cycle in flight at that moment is not interrupted: it
\* can still settle with its own outcome - also when the startup cycle was
\* still running and no timer had been armed.
C11_Cancellation ==
  Cancelled =>
    /\ ~ENABLED TimerFire
    /\ \A n \in CycleIds :
         InFlight(n) => ENABLED (FetchSettles(n) \/ PublishSettles(n))

\* ---------------------------------------------------------------------
\* C12 - arrival-epoch coercion
\* ---------------------------------------------------------------------
\* The arrival time a value of stu.arrival.time stands for
TrueTime(t) == IF t.kind = "long" THEN t.high * Word + (t.low % Word) ELSE t.low

TrueEpochs(bucket, stop) ==
  LET C == {p \in Pos : Candidate(p, stop)}
  IN /\ \A p \in C :
          MathRound(TrueTime(StuAt(p).arrival) - now, 60) >= 0 =>
            \E i \in DOMAIN bucket : bucket[i].arrivalTime = TrueTime(StuAt(p).arrival)
     /\ \A i \in DOMAIN bucket :
          \E p \in C : bucket[i].arrivalTime = TrueTime(StuAt(p).arrival)

\* C12 as stated: for every update with an arrival time, plain or wrapped
\* (low word 0, or a value that does not fit the low word), the arrival epoch
\* the minutes and the sort use is the true arrival time: each array holds
\* the true epochs of its updates that are not past.
C12_ArrivalEpochCoercion ==
  Selected => TrueEpochs(queensArrivals, "D15N") /\ TrueEpochs(brooklynArrivals, "D15S")

====
